---- MODULE Spec2Model ----
(***************************************************************************)
(* Model of the LSM engine MEMSSTable (package db): the active memory      *)
(* table, the queue of immutable tables, the sparse index, the write-ahead *)
(* log, the disk files <id>.sdb / <id>.wal, the flush loop and the restart *)
(* path (NewMEMSSTable, LoadFromDiskTable, LoadFromWAL).                    *)
(***************************************************************************)
EXTENDS Integers, Sequences, FiniteSets, TLC

\* ------------------------------------------------------------------ bounds
\* number of calls (Set, Delete, Flush, restart) made in one behaviour, an
\* I/O operation that fails counting as one more
MaxCalls == 4
\* largest id a Flush iteration may start with
MaxId == 1
\* number of calls the threads of the lock-level specification make
MaxThreadCalls == 3

Keys == {1, 2}
Values == {"x", "y"}
\* the configurations NewMEMSSTable is called with
BlockKeyNums == {0, 1, 2}
TableBlockNums == {0, 1, 2}

VARIABLES
    activeTable,    \* t.activeTable: sequence of commands in append order
    immutable,      \* t.immutable: queue of frozen tables, oldest first
    sparseIndex,    \* t.sparseIndex
    wal,            \* t.wal: id of the file the WAL handle was opened on
    id,             \* t.id
    blockKeyNum,    \* t.blockKeyNum
    tableBlockNum,  \* t.tableBlockNum
    walFiles,       \* <root>/<id>.wal files present: id -> records
    sdbFiles,       \* <root>/<id>.sdb files present: id -> file
    fl,             \* position of the Flush call: [pc, i]
    phase,          \* "run", or the restart step in progress
    toLoad,         \* ids of the files the restart still has to load
    nCalls,         \* number of calls made (bounded)
    latest,         \* history: key -> most recent acknowledged command
    hist,           \* history: the last calls (window of 4 events)
    run,            \* history: calls counted since the active table was empty
    onlyNewSets,    \* history: every call so far was a set on a fresh key
    ret,            \* history: the last call in which an I/O operation failed
    lock,           \* t.lock: 0, or the thread that holds it exclusively
    th,             \* the threads of the lock-level specification
    appended        \* history: commands in the order of activeTable.Append

vars == <<activeTable, immutable, sparseIndex, wal, id, blockKeyNum,
          tableBlockNum, walFiles, sdbFiles, fl, phase, toLoad, nCalls,
          latest, hist, run, onlyNewSets, ret, lock, th, appended>>

\* what the steps of whole calls leave alone
lockVars == <<lock, th, appended>>

\* ---------------------------------------------------------------- Command
CommandTypeSet == "set"
CommandTypeDelete == "delete"

SetCmd(k, v) == [Key |-> k, Value |-> v, Command |-> CommandTypeSet]
DeleteCmd(k) == [Key |-> k, Value |-> "", Command |-> CommandTypeDelete]
NoCmd == [Key |-> 0, Value |-> "", Command |-> "nil"]

\* ---------------------------------------------------------------- SSTable
NewSSTable == <<>>

\* SSTable.Query: reverse scan of the table, first match wins, a tombstone
\* is a match like any other record
SSTableQuery(tbl, key) ==
    LET hits == {i \in DOMAIN tbl : tbl[i].Key = key}
    IN IF hits = {} THEN NoCmd
       ELSE tbl[CHOOSE i \in hits : \A j \in hits : j <= i]

RECURSIVE SortKeys(_)
SortKeys(S) ==
    IF S = {} THEN <<>>
    ELSE LET m == CHOOSE x \in S : \A y \in S : x <= y
         IN <<m>> \o SortKeys(S \ {m})

\* SSTable.Sort: ascending by key, one (the most recent) record per key
SSTableSort(tbl) ==
    LET ks == SortKeys({tbl[i].Key : i \in DOMAIN tbl})
    IN [n \in 1..Len(ks) |-> SSTableQuery(tbl, ks[n])]

\* length of the compressed body of a table, in abstract bytes
Lz4Len(tbl) == Len(tbl)

\* ------------------------------------------------------------------ files
RemoveFile(files, n) == [x \in (DOMAIN files) \ {n} |-> files[x]]

\* the value of t.wal after a NewWAL that failed
NoWal == 0 - 1

\* NewWAL: create the file when absent, open for append otherwise
NewWAL(files, n) == IF n \in DOMAIN files THEN files ELSE files @@ (n :> <<>>)

\* wal.Append: a record written through a handle whose file was removed
\* reaches no file of the directory
WalAppend(files, n, c) ==
    IF n \in DOMAIN files THEN [files EXCEPT ![n] = Append(@, c)] ELSE files

\* DiskSSTable.Query: the block at dataStart, searched for key
DiskQuery(file, blockIndex, dataStart, key) ==
    LET bs == {b \in DOMAIN file.blocks : file.blocks[b].DataStart = dataStart}
    IN IF bs = {} THEN [err |-> "CorruptBlock", cmd |-> NoCmd]
       ELSE LET c == SSTableQuery(file.blocks[CHOOSE b \in bs : TRUE].body, key)
            IN IF c = NoCmd THEN [err |-> "NotFound", cmd |-> NoCmd]
               ELSE [err |-> "nil", cmd |-> c]

\* ----------------------------------------------------------------- engine
\* switchTable that does not start a new active table
switchTableKeepActive(act, imm) ==
    [activeTable |-> act, immutable |-> Append(imm, SSTableSort(act))]

\* switchTable on the pair (active table, immutable queue)
switchTable(act, imm) ==
    [activeTable |-> NewSSTable, immutable |-> Append(imm, SSTableSort(act))]

\* command that appends first and freezes afterwards
commandFreezeAfter(act, imm, limit, c) ==
    IF Len(act) + 1 >= limit THEN switchTable(Append(act, c), imm)
    ELSE [activeTable |-> Append(act, c), immutable |-> imm]

\* command whose fullness test is off by one
commandOffByOne(act, imm, limit, c) ==
    LET s == IF Len(act) > limit THEN switchTable(act, imm)
             ELSE [activeTable |-> act, immutable |-> imm]
    IN [activeTable |-> Append(s.activeTable, c), immutable |-> s.immutable]

\* the memory part of command(c, restore): freeze when full, then append
command(act, imm, limit, c) ==
    LET s == IF Len(act) >= limit THEN switchTable(act, imm)
             ELSE [activeTable |-> act, immutable |-> imm]
    IN [activeTable |-> Append(s.activeTable, c), immutable |-> s.immutable]

Ok(v) == [err |-> "nil", value |-> v]
Err(e) == [err |-> e, value |-> ""]

\* the sparse-index loop of Query: both branches of the key test open the
\* entry's file, query it and return, so the loop body runs at most once
QueryDisk(key) ==
    IF sparseIndex = <<>> THEN Err("NotFound")
    ELSE LET e == sparseIndex[1]
         IN IF e.TableName \notin DOMAIN sdbFiles THEN Err("IOError")
            ELSE LET r == DiskQuery(sdbFiles[e.TableName], e.BlockIndex,
                                    e.DataStart, key)
                 IN IF r.err # "nil" THEN Err(r.err) ELSE Ok(r.cmd.Value)

\* the immutable loop of Query: index order, i.e. oldest frozen table first
QueryImmutable(key) ==
    LET hits == {i \in DOMAIN immutable : SSTableQuery(immutable[i], key) # NoCmd}
    IN IF hits = {} THEN NoCmd
       ELSE SSTableQuery(immutable[CHOOSE i \in hits : \A j \in hits : i <= j], key)

\* Query that forgets the active table
QuerySkipActive(key) ==
    IF QueryImmutable(key) # NoCmd
    THEN Ok(QueryImmutable(key).Value)
    ELSE QueryDisk(key)

Query(key) ==
    IF SSTableQuery(activeTable, key) # NoCmd
    THEN Ok(SSTableQuery(activeTable, key).Value)
    ELSE IF QueryImmutable(key) # NoCmd
    THEN Ok(QueryImmutable(key).Value)
    ELSE QueryDisk(key)


RECURSIVE DataStartOf(_, _)
\* metaInfo.DataLength when the flush loop reaches index i (0-based): the
\* compressed length plus the 4-byte prefix of every non-empty table before it
DataStartOf(imm, i) ==
    IF i = 0 THEN 0
    ELSE DataStartOf(imm, i - 1)
         + (IF Len(imm[i]) = 0 THEN 0 ELSE Lz4Len(imm[i]) + 4)

Min(a, b) == IF a < b THEN a ELSE b

\* value of the loop variable i when the block loop of Flush ends
FlushCount(imm, limit) == Min(Len(imm), limit)

RECURSIVE FlushBlocks(_, _)
\* the data region Flush writes for the first n tables of the queue
FlushBlocks(imm, n) ==
    IF n = 0 THEN <<>>
    ELSE FlushBlocks(imm, n - 1)
         \o (IF Len(imm[n]) = 0 THEN <<>>
             ELSE <<[DataStart |-> DataStartOf(imm, n - 1), body |-> imm[n]]>>)

RECURSIVE FlushIndex(_, _)
\* the local sparseIndex slice Flush builds and writes behind the data region
FlushIndex(imm, n) ==
    IF n = 0 THEN <<>>
    ELSE FlushIndex(imm, n - 1)
         \o (IF Len(imm[n]) = 0 THEN <<>>
             ELSE <<[Key |-> imm[n][1].Key,
                     DataStart |-> DataStartOf(imm, n - 1),
                     BlockIndex |-> n - 1]>>)

\* the truncation of the queue at the end of a flush iteration
DropFlushed(imm, i) ==
    IF Len(imm) >= i THEN SubSeq(imm, i + 1, Len(imm)) ELSE <<>>

RECURSIVE Replay(_, _, _, _)
\* LoadFromWAL: every record of the file re-applied with restore = true
Replay(recs, act, imm, limit) ==
    IF recs = <<>> THEN [activeTable |-> act, immutable |-> imm]
    ELSE LET s == command(act, imm, limit, Head(recs))
         IN Replay(Tail(recs), s.activeTable, s.immutable, limit)

\* the entries LoadFromDiskTable appends for file n
LoadedIndex(file, n) ==
    [j \in 1..Len(file.index) |->
        [Key |-> file.index[j].Key, DataStart |-> file.index[j].DataStart,
         BlockIndex |-> file.index[j].BlockIndex, TableName |-> n]]

\* ---------------------------------------------------------------- history
HistPush(h, e) == IF Len(h) < 4 THEN Append(h, e) ELSE Append(Tail(h), e)
Ev(op, k, v) == [op |-> op, key |-> k, val |-> v]

RunReset(n) == [valid |-> TRUE, n |-> 0, imm0 |-> n, keys |-> {}]
RunInvalid == [valid |-> FALSE, n |-> 0, imm0 |-> 0, keys |-> {}]
RunCount(r, limit, k) ==
    IF r.valid /\ r.n <= limit
    THEN [r EXCEPT !.n = @ + 1, !.keys = @ \cup {k}]
    ELSE RunInvalid

Ret(op, err, failed) == [op |-> op, err |-> err, failed |-> failed]
NoRet == Ret("none", "nil", "none")

Threads == {1, 2}
IdleThread == [op |-> "idle", pc |-> "idle", cmd |-> NoCmd, i |-> 0]

EmptyDir == [x \in {} |-> <<>>]
Idle == [pc |-> "idle", i |-> 0]

\* ------------------------------------------------------------------- Init
\* NewMEMSSTable on an empty root directory
Init ==
    /\ blockKeyNum \in BlockKeyNums
    /\ tableBlockNum \in TableBlockNums
    /\ activeTable = NewSSTable
    /\ immutable = <<>>
    /\ sparseIndex = <<>>
    /\ id = 0
    /\ wal = 0
    /\ walFiles = NewWAL(EmptyDir, 0)
    /\ sdbFiles = EmptyDir
    /\ fl = Idle
    /\ phase = "run"
    /\ toLoad = [sdb |-> <<>>, wal |-> <<>>]
    /\ nCalls = 0
    /\ latest = [k \in Keys |-> NoCmd]
    /\ hist = <<>>
    /\ run = RunReset(0)
    /\ onlyNewSets = TRUE
    /\ ret = NoRet
    /\ lock = 0
    /\ th = [t \in Threads |-> IdleThread]
    /\ appended = <<>>

\* ---------------------------------------------------------------- actions
\* command(c, false): under the lock, freeze if full, WAL append, table append.
\* The result of wal.Append is dropped: when the append fails (appendOk is
\* false) the record is in the table only and the call returns nil all the
\* same. A call on an engine whose NewWAL failed never returns.
Apply(c, appendOk) ==
    /\ phase = "run"
    /\ wal # NoWal
    /\ nCalls < (IF appendOk THEN MaxCalls ELSE MaxCalls - 1)
    /\ LET s == command(activeTable, immutable, blockKeyNum, c)
       IN /\ activeTable' = s.activeTable
          /\ immutable' = s.immutable
    /\ walFiles' = IF appendOk THEN WalAppend(walFiles, wal, c) ELSE walFiles
    /\ nCalls' = nCalls + (IF appendOk THEN 1 ELSE 2)
    /\ ret' = IF appendOk THEN ret ELSE Ret(c.Command, "nil", "wal.Append")
    /\ latest' = [latest EXCEPT ![c.Key] = c]
    /\ hist' = HistPush(hist, Ev(c.Command, c.Key, c.Value))
    /\ run' = RunCount(run, blockKeyNum, c.Key)
    /\ UNCHANGED <<sparseIndex, wal, id, blockKeyNum, tableBlockNum, sdbFiles,
                   fl, phase, toLoad>>
    /\ UNCHANGED lockVars

Set(key, val) ==
    /\ \E appendOk \in BOOLEAN : Apply(SetCmd(key, val), appendOk)
    /\ onlyNewSets' = (onlyNewSets /\ latest[key] = NoCmd)

Delete(key) ==
    /\ \E appendOk \in BOOLEAN : Apply(DeleteCmd(key), appendOk)
    /\ onlyNewSets' = FALSE

\* Flush, lines 110-112: freeze the active table under the lock
FlushStart ==
    /\ phase = "run"
    /\ fl.pc = "idle"
    /\ nCalls < MaxCalls
    /\ nCalls' = nCalls + 1
    /\ LET s == switchTable(activeTable, immutable)
       IN /\ activeTable' = s.activeTable
          /\ immutable' = s.immutable
          /\ run' = RunReset(Len(s.immutable))
    /\ fl' = [pc |-> "loop", i |-> 0]
    /\ hist' = HistPush(hist, Ev("FlushBegin", 0, ""))
    /\ UNCHANGED <<sparseIndex, wal, id, blockKeyNum, tableBlockNum, walFiles,
                   sdbFiles, phase, toLoad, latest,
                   onlyNewSets, ret>>
    /\ UNCHANGED lockVars

\* Flush, lines 114-162: create/truncate <id>.sdb, write the blocks of up to
\* tableBlockNum tables, the index region and the footer
FlushWrite ==
    /\ phase = "run"
    /\ fl.pc = "loop"
    /\ Len(immutable) > 0
    /\ id <= MaxId
    /\ LET n == FlushCount(immutable, tableBlockNum)
           file == [blocks |-> FlushBlocks(immutable, n),
                    index |-> FlushIndex(immutable, n),
                    synced |-> FALSE]
       IN /\ sdbFiles' = [x \in (DOMAIN sdbFiles) \cup {id} |->
                             IF x = id THEN file ELSE sdbFiles[x]]
          /\ fl' = [pc |-> "written", i |-> n]
    /\ UNCHANGED <<activeTable, immutable, sparseIndex, wal, id, blockKeyNum,
                   tableBlockNum, walFiles, phase, toLoad, nCalls,
                   latest, hist, run, onlyNewSets, ret>>
    /\ UNCHANGED lockVars

\* Flush, lines 163-168: f.Sync, f.Close
FlushSync ==
    /\ phase = "run"
    /\ fl.pc = "written"
    /\ sdbFiles' = [sdbFiles EXCEPT ![id].synced = TRUE]
    /\ fl' = [fl EXCEPT !.pc = "synced"]
    /\ UNCHANGED <<activeTable, immutable, sparseIndex, wal, id, blockKeyNum,
                   tableBlockNum, walFiles, phase, toLoad, nCalls,
                   latest, hist, run, onlyNewSets, ret>>
    /\ UNCHANGED lockVars

\* Flush, line 169: t.wal.Remove()
FlushRemoveWal ==
    /\ phase = "run"
    /\ fl.pc = "synced"
    /\ wal # NoWal
    /\ walFiles' = RemoveFile(walFiles, wal)
    /\ fl' = [fl EXCEPT !.pc = "removed"]
    /\ UNCHANGED <<activeTable, immutable, sparseIndex, wal, id, blockKeyNum,
                   tableBlockNum, sdbFiles, phase, toLoad, nCalls,
                   latest, hist, run, onlyNewSets, ret>>
    /\ UNCHANGED lockVars

\* Flush, lines 173-182: under the lock, drop the flushed tables, advance the
\* id and open the WAL of the new id
\* The error of NewWAL is dropped (line 181): when it fails (newWalOk is
\* false) t.wal is the nil handle and the loop goes on.
FlushAdvance ==
    /\ phase = "run"
    /\ fl.pc = "removed"
    /\ immutable' = DropFlushed(immutable, fl.i)
    /\ id' = id + 1
    /\ \E newWalOk \in BOOLEAN :
          IF newWalOk
          THEN /\ wal' = id + 1
               /\ walFiles' = NewWAL(walFiles, id + 1)
               /\ nCalls' = nCalls
          ELSE /\ nCalls < MaxCalls
               /\ wal' = NoWal
               /\ walFiles' = walFiles
               /\ nCalls' = nCalls + 1
    /\ fl' = [pc |-> "loop", i |-> 0]
    /\ run' = IF activeTable = <<>> THEN RunReset(Len(immutable'))
              ELSE RunInvalid
    /\ UNCHANGED <<activeTable, sparseIndex, blockKeyNum, tableBlockNum,
                   sdbFiles, phase, toLoad, latest, hist,
                   onlyNewSets, ret>>
    /\ UNCHANGED lockVars

\* Flush, lines 114 and 185: the queue is empty, return nil; a NewWAL that
\* failed in this call is not reported
FlushReturn ==
    /\ phase = "run"
    /\ fl.pc = "loop"
    /\ Len(immutable) = 0
    /\ fl' = Idle
    /\ hist' = HistPush(hist, Ev("FlushEnd", 0, ""))
    /\ ret' = IF wal = NoWal THEN Ret("flush", "nil", "NewWAL") ELSE ret
    /\ UNCHANGED <<activeTable, immutable, sparseIndex, wal, id, blockKeyNum,
                   tableBlockNum, walFiles, sdbFiles, phase, toLoad, nCalls,
                   latest, run, onlyNewSets>>
    /\ UNCHANGED lockVars

\* Flush returns the error of the I/O operation that failed, leaving the
\* directory as sdb
FlushFail(failed, sdb) ==
    /\ phase = "run"
    /\ nCalls < MaxCalls
    /\ nCalls' = nCalls + 1
    /\ sdbFiles' = sdb
    /\ fl' = Idle
    /\ hist' = HistPush(hist, Ev("FlushErr", 0, ""))
    /\ ret' = Ret("flush", "error", failed)
    /\ UNCHANGED <<activeTable, immutable, sparseIndex, wal, id, blockKeyNum,
                   tableBlockNum, walFiles, phase, toLoad, latest, run,
                   onlyNewSets>>
    /\ UNCHANGED lockVars

\* Flush, lines 116-119: os.OpenFile fails, nothing is created
FlushOpenFail ==
    /\ fl.pc = "loop"
    /\ Len(immutable) > 0
    /\ FlushFail("OpenFile", sdbFiles)

\* Flush, lines 133-136 and 158-162: a write fails after the file was
\* created or truncated
FlushWriteFail ==
    /\ fl.pc = "loop"
    /\ Len(immutable) > 0
    /\ id <= MaxId
    /\ FlushFail("Write",
                 [x \in (DOMAIN sdbFiles) \cup {id} |->
                     IF x = id
                     THEN [blocks |-> <<>>, index |-> <<>>, synced |-> FALSE]
                     ELSE sdbFiles[x]])

\* Flush, lines 163-165: f.Sync fails
FlushSyncFail ==
    /\ fl.pc = "written"
    /\ FlushFail("Sync", sdbFiles)

\* Flush, lines 166-168: f.Close fails after f.Sync succeeded
FlushCloseFail ==
    /\ fl.pc = "written"
    /\ FlushFail("Close", [sdbFiles EXCEPT ![id].synced = TRUE])

\* Flush, lines 169-171: t.wal.Remove fails after the file was synced and
\* closed
FlushRemoveFail ==
    /\ fl.pc = "synced"
    /\ wal # NoWal
    /\ FlushFail("wal.Remove", sdbFiles)

\* the files the restart hands to the engine: every disk file, then every
\* WAL file, each kind in ascending id order
RootFiles(sdb, walf) ==
    [sdb |-> SortKeys(DOMAIN sdb), wal |-> SortKeys(DOMAIN walf)]

\* the process stops at any point and the engine is opened again on the same
\* root: NewMEMSSTable. A disk file that was never synced is not trusted.
NewMEMSSTable ==
    /\ phase = "run"
    /\ nCalls < MaxCalls
    /\ nCalls' = nCalls + 1
    /\ activeTable' = NewSSTable
    /\ immutable' = <<>>
    /\ sparseIndex' = <<>>
    /\ id' = 0
    /\ wal' = 0
    /\ walFiles' = NewWAL(walFiles, 0)
    /\ sdbFiles' = [x \in {y \in DOMAIN sdbFiles : sdbFiles[y].synced} |->
                        sdbFiles[x]]
    /\ fl' = Idle
    /\ phase' = "load"
    /\ toLoad' = RootFiles(sdbFiles', walFiles')
    /\ hist' = HistPush(hist, Ev("Crash", 0, ""))
    /\ run' = RunReset(0)
    /\ UNCHANGED <<blockKeyNum, tableBlockNum, latest, onlyNewSets, ret>>
    /\ UNCHANGED lockVars

\* LoadFromDiskTable on the next disk file of the directory
LoadFromDiskTable ==
    /\ phase = "load"
    /\ toLoad.sdb # <<>>
    /\ LET f == Head(toLoad.sdb)
       IN sparseIndex' = sparseIndex \o LoadedIndex(sdbFiles[f], f)
    /\ id' = id + 1
    /\ toLoad' = [toLoad EXCEPT !.sdb = Tail(@)]
    /\ UNCHANGED <<activeTable, immutable, wal, blockKeyNum, tableBlockNum,
                   walFiles, sdbFiles, fl, phase, nCalls, latest,
                   hist, run, onlyNewSets, ret>>
    /\ UNCHANGED lockVars

\* LoadFromWAL on the next WAL file of the directory; the engine serves
\* calls once the last one is replayed
LoadFromWAL ==
    /\ phase = "load"
    /\ toLoad.sdb = <<>>
    /\ toLoad.wal # <<>>
    /\ LET s == Replay(walFiles[Head(toLoad.wal)], activeTable, immutable,
                       blockKeyNum)
       IN /\ activeTable' = s.activeTable
          /\ immutable' = s.immutable
          /\ run' = IF s.activeTable = <<>> THEN RunReset(Len(s.immutable))
                    ELSE RunInvalid
    /\ toLoad' = [toLoad EXCEPT !.wal = Tail(@)]
    /\ phase' = IF Tail(toLoad.wal) = <<>> THEN "run" ELSE "load"
    /\ hist' = IF Tail(toLoad.wal) = <<>>
               THEN HistPush(hist, Ev("Restart", 0, "")) ELSE hist
    /\ UNCHANGED <<sparseIndex, wal, id, blockKeyNum, tableBlockNum, walFiles,
                   sdbFiles, fl, nCalls, latest, onlyNewSets, ret>>
    /\ UNCHANGED lockVars

Next ==
    \/ \E k \in Keys, v \in Values : Set(k, v)
    \/ \E k \in Keys : Delete(k)
    \/ FlushStart
    \/ FlushWrite
    \/ FlushSync
    \/ FlushRemoveWal
    \/ FlushAdvance
    \/ FlushReturn
    \/ FlushOpenFail
    \/ FlushWriteFail
    \/ FlushSyncFail
    \/ FlushCloseFail
    \/ FlushRemoveFail
    \/ NewMEMSSTable
    \/ LoadFromDiskTable
    \/ LoadFromWAL

Spec == Init /\ [][Next]_vars

\* ------------------------------------------------ threads and the lock
\* The same engine at the grain of the lock: each thread runs one call at a
\* time and a step is a lock operation or the code between two of them.
callVars == <<fl, phase, toLoad, latest, hist, run, onlyNewSets, ret,
              sparseIndex, blockKeyNum, tableBlockNum>>

At(t, op, pc) == th[t].op = op /\ th[t].pc = pc
Goto(t, op, pc) == [th EXCEPT ![t].op = op, ![t].pc = pc]

\* a lock that excludes nobody
CanLockAlways(t) == TRUE

\* t.lock.Lock() returns only when no thread holds the lock
CanLock(t) == lock = 0

\* Set or Delete is called: the thread is about to take the lock
ThCommandCall(t, c) ==
    /\ At(t, "idle", "idle")
    /\ nCalls < MaxThreadCalls
    /\ nCalls' = nCalls + 1
    /\ th' = [th EXCEPT ![t] = [op |-> "command", pc |-> "lock", cmd |-> c,
                                i |-> 0]]
    /\ UNCHANGED <<activeTable, immutable, wal, id, walFiles, sdbFiles, lock,
                   appended>>
    /\ UNCHANGED callVars

\* command, line 54: t.lock.Lock()
ThCommandLock(t) ==
    /\ At(t, "command", "lock")
    /\ CanLock(t)
    /\ lock' = t
    /\ th' = Goto(t, "command", "wal")
    /\ UNCHANGED <<activeTable, immutable, wal, id, walFiles, sdbFiles,
                   nCalls, appended>>
    /\ UNCHANGED callVars

\* command, lines 55-60: freeze the active table if it is full, WAL append
ThCommandWal(t) ==
    /\ At(t, "command", "wal")
    /\ LET s == IF Len(activeTable) >= blockKeyNum
                THEN switchTable(activeTable, immutable)
                ELSE [activeTable |-> activeTable, immutable |-> immutable]
       IN /\ activeTable' = s.activeTable
          /\ immutable' = s.immutable
    /\ walFiles' = WalAppend(walFiles, wal, th[t].cmd)
    /\ th' = Goto(t, "command", "append")
    /\ UNCHANGED <<wal, id, sdbFiles, lock, nCalls, appended>>
    /\ UNCHANGED callVars

\* command, lines 61-63: table append, unlock, return
ThCommandAppend(t) ==
    /\ At(t, "command", "append")
    /\ activeTable' = Append(activeTable, th[t].cmd)
    /\ appended' = Append(appended, th[t].cmd)
    /\ lock' = 0
    /\ th' = [th EXCEPT ![t] = IdleThread]
    /\ UNCHANGED <<immutable, wal, id, walFiles, sdbFiles, nCalls>>
    /\ UNCHANGED callVars

\* Query, lines 68-70: the call starts and reads the active table; no lock
\* is taken anywhere in Query
ThQueryActive(t, key) ==
    /\ At(t, "idle", "idle")
    /\ nCalls < MaxThreadCalls
    /\ nCalls' = nCalls + 1
    /\ th' = IF SSTableQuery(activeTable, key) # NoCmd THEN th
             ELSE [th EXCEPT ![t] = [op |-> "query", pc |-> "immutable",
                                     cmd |-> NoCmd, i |-> key]]
    /\ UNCHANGED <<activeTable, immutable, wal, id, walFiles, sdbFiles, lock,
                   appended>>
    /\ UNCHANGED callVars

\* Query, lines 72-76: read the immutable queue
ThQueryImmutable(t) ==
    /\ At(t, "query", "immutable")
    /\ th' = IF QueryImmutable(th[t].i) # NoCmd
             THEN [th EXCEPT ![t] = IdleThread]
             ELSE Goto(t, "query", "sparse")
    /\ UNCHANGED <<activeTable, immutable, wal, id, walFiles, sdbFiles, lock,
                   nCalls, appended>>
    /\ UNCHANGED callVars

\* Query, lines 79-103: read the sparse index, return
ThQuerySparse(t) ==
    /\ At(t, "query", "sparse")
    /\ th' = [th EXCEPT ![t] = IdleThread]
    /\ UNCHANGED <<activeTable, immutable, wal, id, walFiles, sdbFiles, lock,
                   nCalls, appended>>
    /\ UNCHANGED callVars

\* Flush, line 110: the call starts and takes the lock
ThFlushLock(t) ==
    /\ At(t, "idle", "idle")
    /\ nCalls < MaxThreadCalls
    /\ CanLock(t)
    /\ lock' = t
    /\ nCalls' = nCalls + 1
    /\ th' = Goto(t, "flush", "switch")
    /\ UNCHANGED <<activeTable, immutable, wal, id, walFiles, sdbFiles,
                   appended>>
    /\ UNCHANGED callVars

\* Flush, lines 111-112: freeze the active table, unlock
ThFlushSwitch(t) ==
    /\ At(t, "flush", "switch")
    /\ LET s == switchTable(activeTable, immutable)
       IN /\ activeTable' = s.activeTable
          /\ immutable' = s.immutable
    /\ lock' = 0
    /\ th' = Goto(t, "flush", "loop")
    /\ UNCHANGED <<wal, id, walFiles, sdbFiles, nCalls, appended>>
    /\ UNCHANGED callVars

\* Flush, lines 114-162, without the lock: the queue is not empty, write
\* <id>.sdb from its first tables
ThFlushWrite(t) ==
    /\ At(t, "flush", "loop")
    /\ Len(immutable) > 0
    /\ id <= MaxId
    /\ LET n == FlushCount(immutable, tableBlockNum)
           file == [blocks |-> FlushBlocks(immutable, n),
                    index |-> FlushIndex(immutable, n),
                    synced |-> FALSE]
       IN /\ sdbFiles' = [x \in (DOMAIN sdbFiles) \cup {id} |->
                             IF x = id THEN file ELSE sdbFiles[x]]
          /\ th' = [th EXCEPT ![t].pc = "written", ![t].i = n]
    /\ UNCHANGED <<activeTable, immutable, wal, id, walFiles, lock, nCalls,
                   appended>>
    /\ UNCHANGED callVars

\* Flush, lines 163-168: f.Sync, f.Close
ThFlushSync(t) ==
    /\ At(t, "flush", "written")
    /\ sdbFiles' = [sdbFiles EXCEPT ![id].synced = TRUE]
    /\ th' = Goto(t, "flush", "synced")
    /\ UNCHANGED <<activeTable, immutable, wal, id, walFiles, lock, nCalls,
                   appended>>
    /\ UNCHANGED callVars

\* Flush, line 169: t.wal.Remove()
ThFlushRemoveWal(t) ==
    /\ At(t, "flush", "synced")
    /\ walFiles' = RemoveFile(walFiles, wal)
    /\ th' = Goto(t, "flush", "removed")
    /\ UNCHANGED <<activeTable, immutable, wal, id, sdbFiles, lock, nCalls,
                   appended>>
    /\ UNCHANGED callVars

\* Flush, line 173: take the lock again
ThFlushRelock(t) ==
    /\ At(t, "flush", "removed")
    /\ CanLock(t)
    /\ lock' = t
    /\ th' = Goto(t, "flush", "advance")
    /\ UNCHANGED <<activeTable, immutable, wal, id, walFiles, sdbFiles,
                   nCalls, appended>>
    /\ UNCHANGED callVars

\* Flush, lines 174-182: drop the flushed tables, advance the id, open the
\* WAL of the new id, unlock
ThFlushAdvance(t) ==
    /\ At(t, "flush", "advance")
    /\ immutable' = DropFlushed(immutable, th[t].i)
    /\ id' = id + 1
    /\ wal' = id + 1
    /\ walFiles' = NewWAL(walFiles, id + 1)
    /\ lock' = 0
    /\ th' = [th EXCEPT ![t].pc = "loop", ![t].i = 0]
    /\ UNCHANGED <<activeTable, sdbFiles, nCalls, appended>>
    /\ UNCHANGED callVars

\* Flush, lines 114 and 185: the queue is empty, return nil
ThFlushReturn(t) ==
    /\ At(t, "flush", "loop")
    /\ Len(immutable) = 0
    /\ th' = [th EXCEPT ![t] = IdleThread]
    /\ UNCHANGED <<activeTable, immutable, wal, id, walFiles, sdbFiles, lock,
                   nCalls, appended>>
    /\ UNCHANGED callVars

NextLock ==
    \E t \in Threads :
        \/ \E k \in Keys, v \in Values : ThCommandCall(t, SetCmd(k, v))
        \/ \E k \in Keys : ThCommandCall(t, DeleteCmd(k))
        \/ ThCommandLock(t)
        \/ ThCommandWal(t)
        \/ ThCommandAppend(t)
        \/ \E k \in Keys : ThQueryActive(t, k)
        \/ ThQueryImmutable(t)
        \/ ThQuerySparse(t)
        \/ ThFlushLock(t)
        \/ ThFlushSwitch(t)
        \/ ThFlushWrite(t)
        \/ ThFlushSync(t)
        \/ ThFlushRemoveWal(t)
        \/ ThFlushRelock(t)
        \/ ThFlushAdvance(t)
        \/ ThFlushReturn(t)

SpecLock == Init /\ [][NextLock]_vars

\* ----------------------------------------------------------------- claims
Last(h) == h[Len(h)]
Quiet == phase = "run" /\ fl.pc = "idle"
LatestIsSet(k) == latest[k].Command = CommandTypeSet

\* C1 (read-your-writes): every step that is a Set(k, v) call leads to a
\* state in which Query(k) returns v without error, whatever the state the
\* call started in, the freeze of a full active table included.
ReadYourWrites ==
    [][\A k \in Keys, v \in Values : Set(k, v) => Query(k)' = Ok(v)]_vars

\* the Set that froze a full table has just returned and is read back
ReadYourWritesWitness ==
    /\ Quiet
    /\ hist # <<>>
    /\ Last(hist).op = CommandTypeSet
    /\ blockKeyNum >= 1
    /\ immutable # <<>>
    /\ Len(Last(immutable)) = blockKeyNum
    /\ activeTable = <<SetCmd(Last(hist).key, Last(hist).val)>>
    /\ Query(Last(hist).key) = Ok(Last(hist).val)

\* C2 (delete visibility): whenever the most recent command applied for a
\* key is a delete, Query of that key returns the NotFound error.
DeleteVisibility ==
    \A k \in Keys :
        (phase = "run" /\ latest[k].Command = CommandTypeDelete)
            => Query(k).err = "NotFound"

\* C3 (newest-first recency): once the calls made have returned, Query(k)
\* returns the value of the most recently applied set for k, for every key
\* whose most recent command is a set.
NewestFirst ==
    \A k \in Keys :
        (Quiet /\ LatestIsSet(k)) => Query(k) = Ok(latest[k].Value)

\* the last four calls were set(k, a); flush(); set(k, b), the flush running
\* alone from its first to its last step
SetFlushSet ==
    /\ phase = "run"
    /\ Len(hist) = 4
    /\ hist[1].op = CommandTypeSet
    /\ hist[2].op = "FlushBegin"
    /\ hist[3].op = "FlushEnd"
    /\ hist[4].op = CommandTypeSet
    /\ hist[4].key = hist[1].key

\* C4 (memory wins over disk): after set(k, a); flush(); set(k, b) the
\* query of k returns b.
MemoryWinsOverDisk == SetFlushSet => Query(hist[4].key) = Ok(hist[4].val)

\* the sequence was run with two different values, the first of them is in
\* a synced disk file and the second is the one read
MemoryWinsOverDiskWitness ==
    /\ SetFlushSet
    /\ hist[1].val # hist[4].val
    /\ \E f \in DOMAIN sdbFiles :
          /\ sdbFiles[f].synced
          /\ \E b \in DOMAIN sdbFiles[f].blocks :
                SSTableQuery(sdbFiles[f].blocks[b].body, hist[1].key)
                    = SetCmd(hist[1].key, hist[1].val)
    /\ Query(hist[4].key) = Ok(hist[4].val)

\* a Flush call has just returned, having run alone
JustFlushed ==
    /\ Quiet
    /\ Len(hist) >= 2
    /\ hist[Len(hist) - 1].op = "FlushBegin"
    /\ hist[Len(hist)].op = "FlushEnd"

\* C5 (flushed data stays readable): right after a flush that ran alone,
\* on the same engine, Query(k) returns the value of the latest set of k for
\* every key whose latest command is a set (all of them are on disk then).
FlushedStaysReadable ==
    \A k \in Keys :
        (JustFlushed /\ LatestIsSet(k)) => Query(k) = Ok(latest[k].Value)

\* C6 (flush round-trip): distinct keys were written with set, a flush ran
\* alone, the engine was opened again on the same root (disk files loaded,
\* WALs replayed): Query returns the written value of every one of the keys.
FlushRoundTrip ==
    (/\ phase = "run"
     /\ onlyNewSets
     /\ Len(hist) = 4
     /\ hist[1].op = "FlushBegin"
     /\ hist[2].op = "FlushEnd"
     /\ hist[3].op = "Crash"
     /\ hist[4].op = "Restart")
    => \A k \in Keys : LatestIsSet(k) => Query(k) = Ok(latest[k].Value)

\* the command is a record of a synced disk file or of a WAL file on disk
Recoverable(c) ==
    \/ \E f \in DOMAIN sdbFiles :
          /\ sdbFiles[f].synced
          /\ \E b \in DOMAIN sdbFiles[f].blocks :
                \E n \in DOMAIN sdbFiles[f].blocks[b].body :
                    sdbFiles[f].blocks[b].body[n] = c
    \/ \E w \in DOMAIN walFiles :
          \E n \in DOMAIN walFiles[w] : walFiles[w][n] = c

\* C7 (no acknowledged write is lost): in every state, the most recent
\* acknowledged command of every key is a record of a synced disk file or
\* of a WAL file still on disk.
NoAckedWriteLost ==
    \A k \in Keys : latest[k] # NoCmd => Recoverable(latest[k])

\* the most recent set or delete of the history
LastCommand ==
    LET cs == {n \in DOMAIN hist :
                  hist[n].op \in {CommandTypeSet, CommandTypeDelete}}
    IN hist[CHOOSE n \in cs : \A m \in cs : m <= n]

\* C8 as stated (freeze boundary): starting from an empty active table, after
\* exactly blockKeyNum calls on distinct keys the queue is one table longer
\* and the active table is empty.
FreezeAtLimit ==
    (/\ run.valid
     /\ blockKeyNum >= 1
     /\ run.n = blockKeyNum
     /\ Cardinality(run.keys) = run.n)
    => (Len(immutable) = run.imm0 + 1 /\ activeTable = <<>>)

\* C8 as amended: starting from an empty active table, the first blockKeyNum
\* calls freeze nothing and are all in the active table; call number
\* blockKeyNum + 1 freezes the table, after it the queue is exactly one table
\* longer and the active table holds the triggering command alone; when the
\* keys were distinct the frozen table holds exactly blockKeyNum commands.
FreezeAfterLimit ==
    run.valid =>
        /\ run.n <= blockKeyNum =>
              (Len(immutable) = run.imm0 /\ Len(activeTable) = run.n)
        /\ run.n = blockKeyNum + 1 =>
              /\ Len(immutable) = run.imm0 + 1
              /\ Len(activeTable) = 1
              /\ activeTable[1].Key = LastCommand.key
              /\ activeTable[1].Command = LastCommand.op
              /\ Cardinality(run.keys) = run.n =>
                    Len(Last(immutable)) = blockKeyNum

\* call number blockKeyNum + 1 on distinct keys has frozen a full table
FreezeAfterLimitWitness ==
    /\ run.valid
    /\ blockKeyNum >= 1
    /\ run.n = blockKeyNum + 1
    /\ Cardinality(run.keys) = run.n
    /\ Len(immutable) = run.imm0 + 1
    /\ Len(Last(immutable)) = blockKeyNum
    /\ Len(activeTable) = 1

\* the records of the file the WAL handle of the engine is open on
LiveWal == IF wal \in DOMAIN walFiles THEN walFiles[wal] ELSE <<>>

\* C9 (WAL replay rebuilds the memory state): whenever no call is running,
\* replaying the live WAL into a fresh engine with the same limits yields the
\* immutable queue and the active table of the engine.
WalReplayRebuilds ==
    Quiet => Replay(LiveWal, NewSSTable, <<>>, blockKeyNum)
                = [activeTable |-> activeTable, immutable |-> immutable]


\* a fresh engine value: NewMEMSSTable starts again from id 0
Reopened == phase = "run" /\ phase' = "load"
Durable(f) == f \in DOMAIN sdbFiles /\ sdbFiles[f].synced

\* C11: generation ids are never reused. While an engine lives its id never
\* decreases; it changes only by one, at the end of a flush iteration and for
\* each disk file loaded; and a flush never creates or truncates <id>.sdb
\* when a file of that id was already synced or loaded.
GenerationIdsNeverReused ==
    [][/\ ~Reopened => id' >= id
       /\ (id' # id /\ ~Reopened) =>
              (id' = id + 1 /\ (FlushAdvance \/ LoadFromDiskTable))
       /\ (FlushWrite \/ FlushWriteFail) => ~Durable(id)]_vars


InFile(c, f) ==
    \E b \in DOMAIN sdbFiles[f].blocks :
        \E n \in DOMAIN sdbFiles[f].blocks[b].body :
            sdbFiles[f].blocks[b].body[n] = c
LastOfKey(recs, n) == \A m \in (n + 1)..Len(recs) : recs[m].Key # recs[n].Key
\* every record of WAL w that a later record of w does not override is in a
\* synced disk file
WalCovered(w) ==
    \A n \in DOMAIN walFiles[w] :
        LastOfKey(walFiles[w], n) =>
            \E f \in DOMAIN sdbFiles : Durable(f) /\ InFile(walFiles[w][n], f)

\* C12: WAL removal is ordered after durability. A step deletes a WAL file
\* only when the commands recorded in it are in synced disk files; and a
\* flush that fails at the open, a write, the sync or the close leaves the
\* WAL files, the id and the immutable queue as they were.
WalRemovedAfterDurable ==
    [][/\ \A w \in DOMAIN walFiles :
              w \notin DOMAIN walFiles' => WalCovered(w)
       /\ (FlushOpenFail \/ FlushWriteFail \/ FlushSyncFail \/ FlushCloseFail)
              => (walFiles' = walFiles /\ id' = id /\ immutable' = immutable)
      ]_vars


\* no flush has run or is running
NoFlushYet ==
    /\ DOMAIN sdbFiles = {}
    /\ \A t \in Threads : th[t].op # "flush"
IsPrefix(a, b) == Len(a) <= Len(b) /\ SubSeq(b, 1, Len(a)) = a

\* C13: writer ordering under concurrency. With threads calling set and
\* delete concurrently, the records of the WAL are the commands in the order
\* of their table appends (the active table is the tail of that order): the
\* WAL is ahead by at most the one command of the thread inside the lock and
\* equal whenever the lock is free.
WriterOrder ==
    NoFlushYet =>
        /\ IsPrefix(appended, LiveWal)
        /\ Len(LiveWal) <= Len(appended) + 1
        /\ lock = 0 => LiveWal = appended
        /\ Len(activeTable) <= Len(appended)
        /\ SubSeq(appended, Len(appended) - Len(activeTable) + 1,
                  Len(appended)) = activeTable

WriterOrderWitness ==
    /\ NoFlushYet
    /\ Len(appended) >= 1
    /\ \E t, u \in Threads :
          /\ At(t, "command", "append")
          /\ At(u, "command", "lock")
          /\ th[t].cmd # appended[1]
          /\ LiveWal = Append(appended, th[t].cmd)

\* C14: reader/writer exclusion. Every step of a query that reads the active
\* table, the immutable queue or the sparse index is taken while no thread
\* holds the lock exclusively.
ReaderWriterExclusion ==
    [][\A t \in Threads :
          ((\E k \in Keys : ThQueryActive(t, k)) \/ ThQueryImmutable(t)
              \/ ThQuerySparse(t)) => lock = 0]_vars

InFlushLoop(t) ==
    /\ th[t].op = "flush"
    /\ th[t].pc \in {"loop", "written", "synced", "removed", "advance"}

\* C15: flush is mutually exclusive with itself. At most one thread is
\* inside the flush loop at any time.
FlushExclusive ==
    \A t, u \in Threads : (InFlushLoop(t) /\ InFlushLoop(u)) => t = u


\* C16: I/O failures are surfaced by the write path. A set or delete whose
\* WAL append failed returns an error, and a flush in which the open of the
\* next WAL failed returns an error.
IOFailuresSurfaced ==
    /\ ret.failed = "wal.Append" => ret.err = "error"
    /\ ret.failed = "NewWAL" => ret.err = "error"


\* C17: flush terminates and drains. Every loop iteration of a flush removes
\* at least one table from the immutable queue (so the loop ends), and a
\* flush during which no set or delete ran returns with the immutable queue
\* and the active table empty.
FlushDrains ==
    [][/\ FlushAdvance => Len(immutable') < Len(immutable)
       /\ (FlushReturn /\ Len(hist) >= 1 /\ Last(hist).op = "FlushBegin")
              => (immutable' = <<>> /\ activeTable' = <<>>)]_vars


InMemory(k) ==
    SSTableQuery(activeTable, k) # NoCmd \/ QueryImmutable(k) # NoCmd
\* the lookup of key k in the block sparse-index entry e refers to
EntryLookup(e, k) ==
    IF e.TableName \notin DOMAIN sdbFiles
    THEN [err |-> "IOError", cmd |-> NoCmd]
    ELSE DiskQuery(sdbFiles[e.TableName], e.BlockIndex, e.DataStart, k)
EntryHits(k) ==
    {j \in DOMAIN sparseIndex : EntryLookup(sparseIndex[j], k).err = "nil"}

\* C18: disk lookup considers every sparse-index entry. For a key that is in
\* neither the active nor any immutable table, Query returns the value a
\* referenced block stores for it when some block referenced by the sparse
\* index contains the key, and NotFound only when none does.
DiskLookupAllEntries ==
    \A k \in Keys :
        (phase = "run" /\ ~InMemory(k)) =>
            IF EntryHits(k) = {} THEN Query(k) = Err("NotFound")
            ELSE \E j \in EntryHits(k) :
                    Query(k) = Ok(EntryLookup(sparseIndex[j], k).cmd.Value)


SizesBounded ==
    /\ Len(activeTable) <= blockKeyNum
    /\ \A i \in DOMAIN immutable : Len(immutable[i]) <= blockKeyNum
\* a set or delete that freezes the active table
FreezeByWrite ==
    /\ (\E k \in Keys, v \in Values : Set(k, v)) \/ (\E k \in Keys : Delete(k))
    /\ Len(immutable') = Len(immutable) + 1
\* the table was frozen full, and the write that froze it is alone in the
\* new active table
FrozenFull ==
    /\ Len(activeTable) = blockKeyNum
    /\ immutable'[Len(immutable')] = SSTableSort(activeTable)
    /\ Len(activeTable') = 1
    /\ activeTable'[1] = latest'[activeTable'[1].Key]

\* C19 as stated: in every reachable state the active table and every table
\* of the immutable queue hold at most blockKeyNum commands, and a table
\* frozen by a set or delete was frozen holding exactly blockKeyNum commands,
\* the write that froze it being in the new active table.
FrozenTableBound ==
    [][SizesBounded' /\ (FreezeByWrite => FrozenFull)]_vars

\* C19 amended: the same for every engine whose blockKeyNum is at least 1.
FrozenTableBoundPositive ==
    [][blockKeyNum >= 1 =>
          (SizesBounded' /\ (FreezeByWrite => FrozenFull))]_vars

FrozenTableBoundWitness ==
    /\ phase = "run"
    /\ blockKeyNum >= 1
    /\ nCalls = blockKeyNum + 1
    /\ Len(hist) = blockKeyNum + 1
    /\ \A n \in DOMAIN hist : hist[n].op \in {CommandTypeSet, CommandTypeDelete}
    /\ Len(immutable) = 1
    /\ Len(immutable[1]) = blockKeyNum
    /\ Len(activeTable) = 1


\* C20: the live WAL matches the current generation. Whenever no call is
\* running, after a restart that loaded disk files included, the WAL the
\* engine appends to is the file <id>.wal of its current id.
LiveWalMatchesId ==
    (Quiet /\ wal # NoWal) => wal = id

====
